---------------------------- MODULE Spec2Model ----------------------------
(***************************************************************************)
(* Snapshot/master merge pipeline and curation overlays of the             *)
(* content-analysis app.                                                   *)
(*                                                                         *)
(* The durable state is the set of flat files under data/:                 *)
(*   data/{slug}_master.csv        -> master[slug]                         *)
(*   data/{snapshot_filename}      -> snapshot (the file a merge is given) *)
(*   data/{slug}_{date}_{kind}.csv -> snapshots[slug, kind, date]          *)
(*   data/videos_ignore.csv        -> ignore                               *)
(*   data/channel_annotations.csv  -> ann                                  *)
(* and the session holds the show page's current slug and record set.      *)
(* proc holds the position and the loaded tables of merge processes that   *)
(* run at the same time (two runs of scripts/merge_shows_csvs.py or two    *)
(* sessions of the app).  calc holds the argument and the result of the    *)
(* function of the dashboard or of the library that was applied last.      *)
(* A cell of a table is the value pandas.read_csv yields for it: the       *)
(* empty cell is NA.  video_id and channel_id values are YouTube ids,      *)
(* opaque text that read_csv keeps as text; a slug is an output of         *)
(* slugify_show_name and may consist of digits only, in which case         *)
(* read_csv infers an integer column for it.                               *)
(***************************************************************************)
EXTENDS Integers, Sequences, FiniteSets, TLC

VARIABLES master, snapshot, snapshots, ignore, ann, session, today, ret, proc,
          calc

vars == <<master, snapshot, snapshots, ignore, ann, session, today, ret, proc, calc>>

-----------------------------------------------------------------------------
(* Bounds of the model *)

\* longest table (in rows) the environment places under data/
MaxRows == 2
\* the clock date.today() ranges over 1..MaxDay
MaxDay == 2
\* longest show name (in characters) typed into the search form
MaxLen == 4
\* most result pages the search API returns for one query
MaxPages == 2
\* largest max_results a search is run with
MaxResults == 3

Days == 1..MaxDay

-----------------------------------------------------------------------------
(* Cells, rows, tables *)

NA == [t |-> "na", s |-> "", n |-> 0]
Str(x) == [t |-> "str", s |-> x, n |-> 0]
Bool(b) == [t |-> "bool", s |-> IF b THEN "True" ELSE "False", n |-> 0]
Date(d) == [t |-> "date", s |-> "", n |-> d]
\* an integer, and the float n/2
Integer(n) == [t |-> "int", s |-> "", n |-> n]
Half(n) == [t |-> "float", s |-> "", n |-> n]

isna(c) == c = NA

KEY == "video_id"
PipelineCols == {"present_in_latest_snapshot", "last_seen_snapshot_date", "last_merged_on"}
Columns == {KEY, "title"} \cup PipelineCols

Slugs == {"24", "wire"}
VideoIds == {"v1", "v2"}
\* titles of the master rows and of the snapshot rows placed under data/
MasterTitles == {"old"}
SnapshotTitles == {"new"}

\* a file that does not exist
MISSING == [exists |-> FALSE, cols |-> {}, rows |-> <<>>]

\* the kinds of snapshot file: build_snapshot_filename(slug, kind)
Kinds == {"raw", "clean"}

\* build_snapshot_filename(slug, kind, ts): "{slug}_{YYYYMMDD}_{kind}.csv"
build_snapshot_filename(slug, kind, day) == <<slug, kind, day>>

\* data/ without a snapshot file
NoSnapshots == [f \in Slugs \X Kinds \X Days |-> MISSING]

DataFrame(cols, rows) == [exists |-> TRUE, cols |-> cols, rows |-> rows]

\* the subsequence of seq at the indices in I, in order
SubSeqAt(seq, I) ==
    LET F[i \in 0..Len(seq)] ==
            IF i = 0 THEN <<>>
            ELSE IF i \in I THEN Append(F[i - 1], seq[i]) ELSE F[i - 1]
    IN  F[Len(seq)]

Range(seq) == {seq[i] : i \in 1..Len(seq)}

\* the values of column c of a table
ColValues(df, c) == {df.rows[i][c] : i \in 1..Len(df.rows)}

\* the distinct key values of a table, NA counted as a value
keys(df) == ColValues(df, KEY)

\* the last row of df whose key is k
LastRow(df, k) ==
    LET I == {i \in 1..Len(df.rows) : df.rows[i][KEY] = k}
    IN  df.rows[CHOOSE i \in I : \A j \in I : j <= i]

-----------------------------------------------------------------------------
(* scripts/merge_shows_csvs.py *)

dropna_key(df) ==
    DataFrame(df.cols, SelectSeq(df.rows, LAMBDA r : ~isna(r[KEY])))

\* both sides get the union of the columns; a column a side lacked is NA
align_columns_master(master_df, snapshot_df) ==
    DataFrame(master_df.cols \cup snapshot_df.cols, master_df.rows)

align_columns_snapshot(master_df, snapshot_df) ==
    DataFrame(master_df.cols \cup snapshot_df.cols, snapshot_df.rows)

\* a dedupe that keeps the first occurrence of a key
dedupe_keep_first(df) ==
    DataFrame(df.cols,
              SubSeqAt(df.rows,
                       {i \in 1..Len(df.rows) :
                           \A j \in 1..(i - 1) :
                               df.rows[j][KEY] # df.rows[i][KEY]}))

\* a dedupe that leaves duplicate keys in place
dedupe_none(df) == df

\* drop_duplicates(subset=[key], keep="last"); NA keys are duplicates of
\* each other
dedupe_on_key(df) ==
    DataFrame(df.cols,
              SubSeqAt(df.rows,
                       {i \in 1..Len(df.rows) :
                           \A j \in (i + 1)..Len(df.rows) :
                               df.rows[j][KEY] # df.rows[i][KEY]}))

\* an update with overwrite=False: only the empty cells are filled
update_cell_fill_only(this, that) == IF isna(this) THEN that ELSE this

\* an update that lets an incoming NA erase the stored value
update_cell_erasing(this, that) == that

\* one cell of DataFrame.update(other): where(isna(that), this, that)
update_cell(this, that) == IF isna(that) THEN this ELSE that

\* updated_master = master_df.copy(); updated_master.update(snapshot_df)
\* both frames are indexed by the key and the index of each is unique
update(master_df, snapshot_df) ==
    DataFrame(master_df.cols,
        [i \in 1..Len(master_df.rows) |->
            LET r == master_df.rows[i]
            IN  IF r[KEY] \in keys(snapshot_df)
                THEN LET o == LastRow(snapshot_df, r[KEY])
                     IN  [c \in Columns |->
                            IF c # KEY /\ c \in master_df.cols \cap snapshot_df.cols
                            THEN update_cell(r[c], o[c])
                            ELSE r[c]]
                ELSE r])

\* a merge that appends no new row
new_only_none(master_df, snapshot_df) == <<>>

\* an append of every snapshot row, also those already in the master
new_only_all(master_df, snapshot_df) == snapshot_df.rows

\* snapshot_df.loc[~snapshot_df.index.isin(master_df.index)]
new_only(master_df, snapshot_df) ==
    SelectSeq(snapshot_df.rows, LAMBDA r : r[KEY] \notin keys(master_df))

\* a stamp that dates every row as seen
stamp_all_seen(r, snapshot_df, day) ==
    [r EXCEPT !["present_in_latest_snapshot"] = Bool(r[KEY] \in keys(snapshot_df)),
              !["last_seen_snapshot_date"] = Date(day),
              !["last_merged_on"] = Date(day)]

\* a stamp that leaves the flag of a row once seen at true
stamp_sticky(r, snapshot_df, day) ==
    LET present == r[KEY] \in keys(snapshot_df)
    IN  [r EXCEPT !["present_in_latest_snapshot"] =
                      IF present \/ @ = Bool(TRUE) THEN Bool(TRUE) ELSE Bool(FALSE),
                  !["last_seen_snapshot_date"] = IF present THEN Date(day) ELSE @,
                  !["last_merged_on"] = Date(day)]

\* lines 123-136: presence flag, last_seen_snapshot_date, last_merged_on
\* (a column the frame lacks is NA in every row)
stamp(r, snapshot_df, day) ==
    LET present == r[KEY] \in keys(snapshot_df)
    IN  [r EXCEPT !["present_in_latest_snapshot"] = Bool(present),
                  !["last_seen_snapshot_date"] = IF present THEN Date(day) ELSE @,
                  !["last_merged_on"] = Date(day)]

\* a merge that keeps only the rows of the snapshot
merged_rows_inner(m2, s2) ==
    SelectSeq(update(m2, s2).rows, LAMBDA r : r[KEY] \in keys(s2)) \o new_only(m2, s2)

\* lines 114-121: pd.concat([updated_master, new_only])
merged_rows(m2, s2) == update(m2, s2).rows \o new_only(m2, s2)

\* the table merge_master_with_snapshot writes, given the two tables read
\* (both holding the key column) and the date
merged_table(master_in, snapshot_in, day) ==
    LET s0 == dropna_key(snapshot_in)
        m2 == dedupe_on_key(align_columns_master(master_in, s0))
        s2 == dedupe_on_key(align_columns_snapshot(master_in, s0))
        rows == merged_rows(m2, s2)
    IN  DataFrame(m2.cols \cup PipelineCols,
                  [i \in 1..Len(rows) |-> stamp(rows[i], s2, day)])

\* a merge that takes a missing master for an empty one
merge_error_lenient(m, s) ==
    IF ~s.exists THEN "FileNotFoundError"
    ELSE IF m.exists /\ KEY \notin m.cols THEN "ValueError"
    ELSE IF KEY \notin s.cols THEN "ValueError"
    ELSE "ok"

\* a merge that does not check the snapshot's schema
merge_error_unchecked(m, s) ==
    IF ~m.exists THEN "FileNotFoundError"
    ELSE IF ~s.exists THEN "FileNotFoundError"
    ELSE IF KEY \notin m.cols THEN "ValueError"
    ELSE "ok"

\* the exception merge_for_show raises, "ok" when it returns:
\* lines 170-180 (missing files), lines 95-98 (missing key column)
merge_error(m, s) ==
    IF ~m.exists THEN "FileNotFoundError"
    ELSE IF ~s.exists THEN "FileNotFoundError"
    ELSE IF KEY \notin m.cols THEN "ValueError"
    ELSE IF KEY \notin s.cols THEN "ValueError"
    ELSE "ok"

\* the outcome of the last call: the operation, its slug, the exception it
\* raised, and whether it repeated the call before it on unchanged inputs
Ret(op, slug, err) ==
    [op |-> op, slug |-> slug, err |-> err,
     again |-> ret.op = op /\ ret.slug = slug /\ ret.err = "ok"]

NoCall == [op |-> "none", slug |-> "", err |-> "ok", again |-> FALSE]

\* the merge processes that run beside the session: none has started
Procs == {"p1", "p2"}
NoProcs ==
    [p \in Procs |-> [pc |-> "idle", slug |-> "", master_df |-> MISSING,
                      snapshot_df |-> MISSING, overlapped |-> FALSE]]

\* no function of the dashboard has been applied
NoCalc == [fn |-> "none", arg |-> <<>>, out |-> <<>>]

\* st.session_state before a show is opened
NoSession == [slug |-> "", df |-> MISSING]

\* merge_for_show(slug, snapshot_filename): reads the master and the
\* snapshot, and on success overwrites the master
merge_for_show(slug) ==
    LET err == merge_error(master[slug], snapshot)
    IN  /\ ret' = Ret("merge_for_show", slug, err)
        /\ master' = IF err = "ok"
                     THEN [master EXCEPT ![slug] =
                              merged_table(master[slug], snapshot, today)]
                     ELSE master
        /\ UNCHANGED <<snapshot, snapshots, ignore, ann, session, today, proc, calc>>

\* the user downloads the table of a show ("Download CSV") and saves it
\* under data/ as the snapshot file of the next merge
upload_exported(slug) ==
    /\ master[slug].exists
    /\ snapshot' = master[slug]
    /\ snapshot' # snapshot
    /\ ret' = Ret("upload", slug, "ok")
    /\ UNCHANGED <<master, snapshots, ignore, ann, session, today, proc, calc>>

\* date.today() is read from the system clock, which the program does not
\* control
Tick ==
    /\ \E d \in Days : d # today /\ today' = d
    /\ UNCHANGED <<master, snapshot, snapshots, ignore, ann, session, ret, proc, calc>>

-----------------------------------------------------------------------------
(* Tables the environment places under data/ *)

Cells(S) == {NA} \cup {Str(x) : x \in S}

\* rows over the columns cols, every other column NA
RowsOver(cols, titles) ==
    {[c \in Columns |->
        IF c = KEY /\ KEY \in cols THEN k
        ELSE IF c = "title" /\ "title" \in cols THEN t
        ELSE NA] : k \in Cells(VideoIds), t \in Cells(titles)}

SeqsUpTo(S, n) == UNION {[1..k -> S] : k \in 0..n}

InputTables(titles) ==
    UNION {{DataFrame(cols, rows) :
                rows \in SeqsUpTo(RowsOver(cols, titles), MaxRows)} :
            cols \in {{KEY, "title"}, {KEY}, {"title"}}}

-----------------------------------------------------------------------------
(* The merge engine: one show's master, with the other show's master      *)
(* missing, and a cleaned snapshot placed under data/                     *)

InitMerge ==
    /\ \E m \in InputTables(MasterTitles) \cup {MISSING} :
          master = [s \in Slugs |-> IF s = "wire" THEN m ELSE MISSING]
    /\ snapshot \in InputTables(SnapshotTitles) \cup {MISSING}
    /\ snapshots = NoSnapshots
    /\ ignore = MISSING
    /\ ann = MISSING
    /\ session = NoSession
    /\ today \in Days
    /\ ret = NoCall
    /\ proc = NoProcs
    /\ calc = NoCalc

NextMerge ==
    \/ \E s \in Slugs : merge_for_show(s)
    \/ \E s \in Slugs : upload_exported(s)
    \/ Tick

SpecMerge == InitMerge /\ [][NextMerge]_vars

ContentCols == Columns \ PipelineCols

\* a successful merge_for_show(s) step
MergeOk(s) == merge_for_show(s) /\ ret'.err = "ok"

(* C1: the table a successful merge writes holds exactly one row for each  *)
(* key of keys(M) \cup keys(S), S taken without its null-key rows and NA   *)
(* counted as one key value of M, and no other row.                        *)
C1_RowCountLaw ==
    [][\A s \in Slugs : MergeOk(s) =>
          LET K == keys(master[s]) \cup keys(dropna_key(snapshot))
              out == master'[s]
          IN  /\ keys(out) = K
              /\ Len(out.rows) = Cardinality(K)]_vars

HasDuplicateKeys(df) == Len(df.rows) > Cardinality(keys(df))

C1_Witness ==
    /\ ret.op = "merge_for_show" /\ ret.err = "ok"
    /\ NA \in keys(master[ret.slug])
    /\ Len(master[ret.slug].rows) = 3
    /\ HasDuplicateKeys(snapshot)

\* the snapshot as the merge uses it: null-key rows dropped
S0 == dropna_key(snapshot)

(* C2 as stated: after a merge, for every key k of the snapshot and every  *)
(* column c in which the snapshot's last row for k is non-null, the merged *)
(* row for k holds the snapshot's value.                                   *)
C2_AsStated ==
    [][\A s \in Slugs : MergeOk(s) =>
          \A k \in keys(S0) : \A c \in snapshot.cols :
              ~isna(LastRow(S0, k)[c]) =>
                  /\ k \in keys(master'[s])
                  /\ LastRow(master'[s], k)[c] = LastRow(S0, k)[c]]_vars

(* C2 amended: the same for every column c other than the three pipeline   *)
(* columns, which the merge stamps itself; it covers keys already in the   *)
(* master and keys only in the snapshot.                                   *)
C2_SnapshotWins ==
    [][\A s \in Slugs : MergeOk(s) =>
          \A k \in keys(S0) : \A c \in snapshot.cols \cap ContentCols :
              ~isna(LastRow(S0, k)[c]) =>
                  /\ k \in keys(master'[s])
                  /\ LastRow(master'[s], k)[c] = LastRow(S0, k)[c]]_vars

\* a merge has overwritten a master title and appended a new key
C2_Witness ==
    /\ ret.op = "merge_for_show" /\ ret.err = "ok"
    /\ \E k \in keys(S0) :
          /\ LastRow(S0, k)["title"] = Str("new")
          /\ LastRow(master[ret.slug], k)["title"] = Str("new")
    /\ \E r \in Range(master[ret.slug].rows) :
          r["title"] = Str("old") /\ r["present_in_latest_snapshot"] = Bool(FALSE)
    /\ Len(master[ret.slug].rows) = 3

(* C3 as stated: for every key k in both master and snapshot and every     *)
(* column c where the master value is non-null and the snapshot value is   *)
(* null, the merged row keeps the master's value.                          *)
C3_AsStated ==
    [][\A s \in Slugs : MergeOk(s) =>
          \A k \in keys(master[s]) \cap keys(S0) : \A c \in Columns :
              (~isna(LastRow(master[s], k)[c]) /\ isna(LastRow(S0, k)[c])) =>
                  LastRow(master'[s], k)[c] = LastRow(master[s], k)[c]]_vars

(* C3 amended: the same for every column c other than the three pipeline   *)
(* columns: an incoming null (also of a column the snapshot lacks) never   *)
(* erases an existing content value.                                       *)
C3_NullProtection ==
    [][\A s \in Slugs : MergeOk(s) =>
          \A k \in keys(master[s]) \cap keys(S0) : \A c \in ContentCols :
              (~isna(LastRow(master[s], k)[c]) /\ isna(LastRow(S0, k)[c])) =>
                  LastRow(master'[s], k)[c] = LastRow(master[s], k)[c]]_vars

\* a merged row kept its title although the snapshot's row has none, once
\* with a snapshot holding the column and once with one lacking it
C3_Witness ==
    /\ ret.op = "merge_for_show" /\ ret.err = "ok"
    /\ "title" \notin snapshot.cols
    /\ \E k \in keys(S0) : LastRow(master[ret.slug], k)["title"] = Str("old")

C3_WitnessNullCell ==
    /\ ret.op = "merge_for_show" /\ ret.err = "ok"
    /\ "title" \in snapshot.cols
    /\ \E k \in keys(S0) :
          /\ isna(LastRow(S0, k)["title"])
          /\ LastRow(master[ret.slug], k)["title"] = Str("old")

(* C4: a merge never drops a master row: every key of the master before    *)
(* a merge is a key of the master after it, with its content fields        *)
(* unchanged when the key is absent from the snapshot; a failed merge      *)
(* leaves the master as it was, so the key set of the master only grows.   *)
C4_MasterRowsKept ==
    [][\A s \in Slugs : merge_for_show(s) =>
          /\ master[s].exists => master'[s].exists
          /\ keys(master[s]) \subseteq keys(master'[s])
          /\ \A k \in keys(master[s]) \ keys(S0) : \A c \in ContentCols :
                LastRow(master'[s], k)[c] = LastRow(master[s], k)[c]]_vars

\* a merged master holds a row the snapshot lacks, with its old title
C4_Witness ==
    /\ ret.op = "merge_for_show" /\ ret.err = "ok"
    /\ S0.rows # <<>>
    /\ \E k \in keys(master[ret.slug]) \ keys(S0) :
          /\ ~isna(k)
          /\ LastRow(master[ret.slug], k)["title"] = Str("old")
          /\ LastRow(master[ret.slug], k)["last_merged_on"] = Date(today)

\* the table without its two date stamps
Undated(df) ==
    [df EXCEPT !.rows =
        [i \in 1..Len(df.rows) |->
            [df.rows[i] EXCEPT !["last_seen_snapshot_date"] = NA,
                               !["last_merged_on"] = NA]]]

(* C5: merging the same snapshot into a master a second time in a row      *)
(* leaves the master with the same rows, in the same order, with the same  *)
(* values in every column but last_seen_snapshot_date and last_merged_on.  *)
C5_MergeIdempotent ==
    [][\A s \in Slugs :
          (MergeOk(s) /\ ret.op = "merge_for_show" /\ ret.slug = s /\ ret.err = "ok")
              => Undated(master'[s]) = Undated(master[s])]_vars

\* the same snapshot was merged twice in a row, the second time on another
\* day, into a master that it changed the first time
C5_Witness ==
    /\ ret.op = "merge_for_show" /\ ret.err = "ok" /\ ret.again
    /\ Len(master[ret.slug].rows) = 3
    /\ \E r \in Range(master[ret.slug].rows) :
          /\ r["title"] = Str("new")
          /\ r["last_seen_snapshot_date"] = Date(today)
    /\ \E r \in Range(master[ret.slug].rows) :
          /\ r["present_in_latest_snapshot"] = Bool(FALSE)
          /\ r["last_merged_on"] = Date(today)

(* C9 as stated: merging a snapshot for a slug that has no master file     *)
(* succeeds and creates a master holding the snapshot's rows.              *)
C9_AsStated ==
    [][\A s \in Slugs :
          (merge_for_show(s) /\ ~master[s].exists
              /\ snapshot.exists /\ KEY \in snapshot.cols)
          => /\ ret'.err = "ok"
             /\ master'[s].exists
             /\ keys(master'[s]) = keys(S0)]_vars

(* C9 amended: merging a snapshot for a slug that has no master file fails *)
(* with FileNotFoundError and creates no master: every file is as it was.  *)
C9_MissingMasterFails ==
    [][\A s \in Slugs : (merge_for_show(s) /\ ~master[s].exists) =>
          /\ ret'.err = "FileNotFoundError"
          /\ master' = master
          /\ snapshot' = snapshot]_vars

C9_Witness ==
    /\ ret.op = "merge_for_show" /\ ret.err = "FileNotFoundError"
    /\ ~master[ret.slug].exists
    /\ snapshot.exists /\ KEY \in snapshot.cols /\ S0.rows # <<>>

(* C10: when master and snapshot exist and the key column is absent from   *)
(* one of them, the merge raises ValueError and writes nothing: the master *)
(* and every other store are what they were.                               *)
C10_SchemaErrorWritesNothing ==
    [][\A s \in Slugs :
          (merge_for_show(s) /\ master[s].exists /\ snapshot.exists
              /\ (KEY \notin master[s].cols \/ KEY \notin snapshot.cols))
          => /\ ret'.err = "ValueError"
             /\ master' = master
             /\ snapshot' = snapshot
             /\ ignore' = ignore
             /\ ann' = ann]_vars

C10_Witness ==
    /\ ret.op = "merge_for_show" /\ ret.err = "ValueError"
    /\ KEY \in master[ret.slug].cols /\ master[ret.slug].rows # <<>>
    /\ KEY \notin snapshot.cols /\ snapshot.rows # <<>>

C10_WitnessMaster ==
    /\ ret.op = "merge_for_show" /\ ret.err = "ValueError"
    /\ KEY \notin master[ret.slug].cols
    /\ KEY \in snapshot.cols

-----------------------------------------------------------------------------
(* scripts/videos_ignore.py *)

\* the texts of the model that consist of digits only
DigitTexts == {"24"}

Reasons == {"user_marked_in_ui", "not_show"}

\* the dtype pandas.read_csv infers for a column holding these texts
read_csv_dtype(texts) ==
    IF texts # {} /\ texts \subseteq DigitTexts THEN "int64" ELSE "object"

\* load_ignore_list(): the rows of videos_ignore.csv as read_csv yields
\* them, the slug column with its inferred dtype; no rows when the file is
\* missing
load_ignore_list(file) ==
    LET dtype == read_csv_dtype({file.rows[i].slug : i \in 1..Len(file.rows)})
    IN  [i \in 1..Len(file.rows) |->
            [file.rows[i] EXCEPT !.slug = [dtype |-> dtype, text |-> @]]]

\* combined.to_csv(VIDEOS_IGNORE_PATH): a value is written as its text
ignore_to_csv(rows) ==
    [exists |-> TRUE,
     cols |-> {"slug", "video_id", "reason", "first_marked_at"},
     rows |-> [i \in 1..Len(rows) |-> [rows[i] EXCEPT !.slug = @.text]]]

\* drop_duplicates(subset=["slug", "video_id"], keep="first")
drop_duplicates_first(rows) ==
    SubSeqAt(rows, {i \in 1..Len(rows) :
                        \A j \in 1..(i - 1) :
                            ~(rows[j].slug = rows[i].slug
                              /\ rows[j].video_id = rows[i].video_id)})

\* the list append_ignores_for_show writes: lines 57-78
appended_ignores(file, slug, rows_df, reason, day) ==
    LET ignore_df == load_ignore_list(file)
        new_rows == [i \in 1..Len(rows_df) |->
                        [slug |-> [dtype |-> "object", text |-> slug],
                         video_id |-> rows_df[i],
                         reason |-> reason,
                         first_marked_at |-> day]]
    IN  ignore_to_csv(drop_duplicates_first(ignore_df \o new_rows))

\* an append that does not return on an empty rows_df
append_ignores_unguarded(slug, rows_df, reason) ==
    /\ ret' = Ret("append_ignores_for_show", slug, "ok")
    /\ ignore' = appended_ignores(ignore, slug, rows_df, reason, today)
    /\ UNCHANGED <<master, snapshot, snapshots, ann, session, today, proc, calc>>

\* append_ignores_for_show(slug, rows_df, reason); an empty rows_df returns
\* at once (lines 54-55)
append_ignores_for_show(slug, rows_df, reason) ==
    /\ ret' = Ret("append_ignores_for_show", slug, "ok")
    /\ ignore' = IF rows_df = <<>> THEN ignore
                 ELSE appended_ignores(ignore, slug, rows_df, reason, today)
    /\ UNCHANGED <<master, snapshot, snapshots, ann, session, today, proc, calc>>

\* str(video_id) of a cell: astype(str)
astype_str(c) == IF isna(c) THEN "nan" ELSE c.s

\* lines 90-95: the ids on the ignore list for this slug; the slug column
\* is compared with the str slug
bad_ids(file, slug) ==
    {r.video_id : r \in {x \in Range(load_ignore_list(file)) :
                            x.slug = [dtype |-> "object", text |-> slug]}}

\* filter_master_for_show(slug, master_df)
filter_master_for_show(file, slug, master_df) ==
    IF load_ignore_list(file) = <<>> THEN master_df
    ELSE IF bad_ids(file, slug) = {} THEN master_df
    ELSE [master_df EXCEPT !.rows =
            SelectSeq(@, LAMBDA r : astype_str(r[KEY]) \notin bad_ids(file, slug))]

\* render_show_page, lines 595-607: the ignore filter is applied to the
\* session's record set, which is stored back into the session
render_show_page ==
    /\ session.df.exists
    /\ session' = [session EXCEPT !.df =
                      filter_master_for_show(ignore, session.slug, session.df)]
    /\ ret' = Ret("render_show_page", session.slug, "ok")
    /\ UNCHANGED <<master, snapshot, snapshots, ignore, ann, today, proc, calc>>

-----------------------------------------------------------------------------
(* The ignore list: appends for the shows, starting from a missing list   *)

\* non-empty selections of videos, duplicates allowed
Selections == SeqsUpTo(VideoIds, MaxRows) \ {<<>>}

InitIgnore ==
    /\ master = [x \in Slugs |-> MISSING]
    /\ session = NoSession
    /\ snapshot = MISSING
    /\ snapshots = NoSnapshots
    /\ ignore = MISSING
    /\ ann = MISSING
    /\ today \in Days
    /\ ret = NoCall
    /\ proc = NoProcs
    /\ calc = NoCalc

NextIgnore ==
    \/ \E s \in Slugs, rows \in Selections, reason \in Reasons :
          append_ignores_for_show(s, rows, reason)
    \/ Tick

SpecIgnore == InitIgnore /\ [][NextIgnore]_vars

-----------------------------------------------------------------------------
(* The show page of one day: a show is open in the session, videos are     *)
(* put on the ignore list with the default reason, the page is rendered    *)

\* the record sets a show can be opened with
ShowTables == {df \in InputTables({}) : df.cols = {KEY}}

InitShow ==
    /\ \E s \in Slugs, df \in ShowTables :
          /\ master = [x \in Slugs |-> IF x = s THEN df ELSE MISSING]
          /\ session = [slug |-> s, df |-> df]
    /\ snapshot = MISSING
    /\ snapshots = NoSnapshots
    /\ ignore = MISSING
    /\ ann = MISSING
    /\ today \in Days
    /\ ret = NoCall
    /\ proc = NoProcs
    /\ calc = NoCalc

NextShow ==
    \/ \E s \in Slugs, rows \in Selections :
          append_ignores_for_show(s, rows, "user_marked_in_ui")
    \/ render_show_page

SpecShow == InitShow /\ [][NextShow]_vars

\* the (slug, video_id) pairs of the stored list
Pairs(file) == {<<file.rows[i].slug, file.rows[i].video_id>> : i \in 1..Len(file.rows)}

\* the first stored entry of a pair
FirstEntry(file, p) ==
    file.rows[CHOOSE i \in 1..Len(file.rows) :
                /\ <<file.rows[i].slug, file.rows[i].video_id>> = p
                /\ \A j \in 1..(i - 1) :
                      <<file.rows[j].slug, file.rows[j].video_id>> # p]

(* C6: after every append the stored list holds at most one entry per      *)
(* (slug, video_id); an entry already stored keeps its first_marked_at and *)
(* reason, and an append of pairs that are all stored already leaves the   *)
(* stored list unchanged.                                                  *)
C6_AsStated ==
    [][\A s \in Slugs, rows \in Selections, reason \in Reasons :
          append_ignores_for_show(s, rows, reason) =>
              /\ Len(ignore'.rows) = Cardinality(Pairs(ignore'))
              /\ \A p \in Pairs(ignore) :
                    /\ p \in Pairs(ignore')
                    /\ FirstEntry(ignore', p) = FirstEntry(ignore, p)
              /\ ({<<s, rows[i]>> : i \in 1..Len(rows)} \subseteq Pairs(ignore)
                    => ignore' = ignore)]_vars

\* the ids the ignore list holds for a slug
IgnoredIds(file, slug) ==
    {file.rows[i].video_id : i \in {j \in 1..Len(file.rows) : file.rows[j].slug = slug}}

(* C7: the filter returns exactly the records whose video_id is not on the *)
(* ignore list for the slug, unchanged and in their order, and does not    *)
(* modify the ignore list.                                                 *)
C7_AsStated ==
    [][render_show_page =>
          /\ session'.df =
                [session.df EXCEPT !.rows =
                    SelectSeq(@, LAMBDA r :
                        astype_str(r[KEY]) \notin IgnoredIds(ignore, session.slug))]
          /\ ignore' = ignore]_vars

-----------------------------------------------------------------------------
(* scripts/channel_annotations.py *)

Channels == {"UC1", "UC2"}

AnnCols == {"channel_id", "ugc", "first_marked_at", "last_updated_at"}

\* to_bool of a stored cell: lines 43-53
to_bool(c) == c.t = "bool" /\ c.s = "True"

\* load_channel_annotations(): the rows of channel_annotations.csv; a
\* column the file lacks is added holding "" (a date column) or False
\* (ugc); no rows when the file is missing
load_channel_annotations(file) ==
    [i \in 1..Len(file.rows) |->
        [c \in AnnCols |->
            IF c \in file.cols
            THEN (IF c = "ugc" THEN Bool(to_bool(file.rows[i][c])) ELSE file.rows[i][c])
            ELSE (IF c = "ugc" THEN Bool(FALSE) ELSE Str(""))]]

\* the position of a last_updated_at value in sort_values' ascending
\* order: "" sorts before every ISO date, NA is placed last
sort_rank(c) ==
    IF isna(c) THEN MaxDay + 1
    ELSE IF c.t = "date" THEN c.n
    ELSE 0

\* combined.sort_values("last_updated_at"): the rows in ascending order of
\* the column, rows of equal value in their order (numpy's quicksort is an
\* insertion sort on arrays this short)
sort_values(rows) ==
    LET n == Len(rows)
        key(i) == sort_rank(rows[i]["last_updated_at"])
        pos(i) == Cardinality({j \in 1..n :
                      \/ key(j) < key(i)
                      \/ key(j) = key(i) /\ j < i}) + 1
    IN  [p \in 1..n |-> rows[CHOOSE i \in 1..n : pos(i) = p]]

\* an upsert that keeps every row
drop_duplicates_none(rows) == rows

\* drop_duplicates(subset=["channel_id"], keep="last")
drop_duplicates_channel(rows) ==
    SubSeqAt(rows, {i \in 1..Len(rows) :
                        \A j \in (i + 1)..Len(rows) :
                            rows[j]["channel_id"] # rows[i]["channel_id"]})

\* combined.to_csv(CHANNEL_ANN_PATH): "" is written as the empty cell
ann_to_csv(rows) ==
    [exists |-> TRUE,
     cols |-> AnnCols,
     rows |-> [i \in 1..Len(rows) |->
                 [c \in AnnCols |-> IF rows[i][c] = Str("") THEN NA ELSE rows[i][c]]]]

\* the table upsert_channel_annotations writes: lines 82-108
upserted_annotations(file, rows_df, day) ==
    LET annotations == load_channel_annotations(file)
        new_rows == [i \in 1..Len(rows_df) |->
                        [c \in AnnCols |->
                            IF c = "channel_id" THEN Str(rows_df[i].channel_id)
                            ELSE IF c = "ugc" THEN Bool(rows_df[i].ugc)
                            ELSE Date(day)]]
    IN  ann_to_csv(drop_duplicates_channel(sort_values(annotations \o new_rows)))

\* upsert_channel_annotations(rows_df); an empty rows_df returns at once
\* (lines 79-80)
upsert_channel_annotations(rows_df) ==
    /\ ret' = Ret("upsert_channel_annotations", "", "ok")
    /\ ann' = IF rows_df = <<>> THEN ann
              ELSE upserted_annotations(ann, rows_df, today)
    /\ UNCHANGED <<master, snapshot, snapshots, ignore, session, today, proc, calc>>

-----------------------------------------------------------------------------
(* The channel annotation store: upserts, starting from a missing file or  *)
(* from a file that lacks the date columns                                 *)

UpsertRows == [channel_id : Channels, ugc : BOOLEAN]

\* non-empty submissions, a channel possibly several times
Submissions == SeqsUpTo(UpsertRows, MaxRows) \ {<<>>}

\* annotation files written before the date columns existed
LegacyAnnotations ==
    {[exists |-> TRUE,
      cols |-> {"channel_id", "ugc"},
      rows |-> <<[c \in AnnCols |->
                    IF c = "channel_id" THEN Str(ch)
                    ELSE IF c = "ugc" THEN Bool(u) ELSE NA]>>] :
        ch \in Channels, u \in BOOLEAN}

InitAnn ==
    /\ master = [x \in Slugs |-> MISSING]
    /\ session = NoSession
    /\ snapshot = MISSING
    /\ snapshots = NoSnapshots
    /\ ignore = MISSING
    /\ ann \in {MISSING} \cup LegacyAnnotations
    /\ today \in Days
    /\ ret = NoCall
    /\ proc = NoProcs
    /\ calc = NoCalc

NextAnn ==
    \/ \E rows \in Submissions : upsert_channel_annotations(rows)
    \/ Tick

SpecAnn == InitAnn /\ [][NextAnn]_vars

\* the ugc value of the last submitted row for a channel
LastSubmitted(rows, ch) ==
    rows[CHOOSE i \in 1..Len(rows) :
            /\ rows[i].channel_id = ch
            /\ \A j \in (i + 1)..Len(rows) : rows[j].channel_id # ch].ugc

\* the stored ugc values for a channel
StoredUgc(file, ch) ==
    {to_bool(file.rows[i]["ugc"]) :
        i \in {j \in 1..Len(file.rows) : file.rows[j]["channel_id"] = Str(ch)}}

(* C8: after an upsert, for every channel of the submitted rows the stored *)
(* annotation's ugc is the value of the last submitted row for that        *)
(* channel, whatever the stored entry for the channel was.                 *)
C8_AsStated ==
    [][\A rows \in Submissions : upsert_channel_annotations(rows) =>
          \A i \in 1..Len(rows) :
              StoredUgc(ann', rows[i].channel_id)
                  = {LastSubmitted(rows, rows[i].channel_id)}]_vars
-----------------------------------------------------------------------------
(* app.py: the show page of an open show.  Streamlit runs the script anew  *)
(* on every interaction and on st.rerun(): render_show_page first applies  *)
(* the ignore filter to the session's record set, then the handler of the  *)
(* clicked button runs.                                                    *)

\* datetime.utcnow() and date.today() read the same system clock
utcnow == today

\* the ids the ignore panel's editor shows: str(video_id) of its rows
editor_ids(df) == {astype_str(df.rows[i][KEY]) : i \in 1..Len(df.rows)}

\* "Apply ignore to selected videos", lines 446-499: the selected videos
\* are appended to the ignore list; a master that exists is filtered and
\* written back, the session is given the filtered master and the script
\* reruns; without a master the session keeps the record set it has
render_ignore_panel(selected) ==
    /\ session.df.exists
    /\ LET slug == session.slug
           df == filter_master_for_show(ignore, slug, session.df)
           list == appended_ignores(ignore, slug, selected, "user_marked_in_ui", today)
           filtered_master == filter_master_for_show(list, slug, master[slug])
       IN  /\ Range(selected) \subseteq editor_ids(df)
           /\ ignore' = list
           /\ IF master[slug].exists
              THEN /\ master' = [master EXCEPT ![slug] = filtered_master]
                   /\ session' = [session EXCEPT !.df =
                         filter_master_for_show(list, slug, filtered_master)]
              ELSE /\ master' = master
                   /\ session' = [session EXCEPT !.df = df]
           /\ ret' = Ret("render_ignore_panel", slug, "ok")
    /\ UNCHANGED <<snapshot, snapshots, ann, today, proc, calc>>

\* "Merge uploaded snapshot into master", lines 649-671: the uploaded file
\* is written under the clean snapshot's name and merged into the master;
\* after a successful merge the session is given the master and the script
\* reruns; an exception is reported and the session keeps its record set
merge_snapshot(uploaded) ==
    /\ session.df.exists
    /\ LET slug == session.slug
           df == filter_master_for_show(ignore, slug, session.df)
           snapshot_filename == build_snapshot_filename(slug, "clean", utcnow)
           err == merge_error(master[slug], uploaded)
           updated_df == merged_table(master[slug], uploaded, today)
       IN  /\ snapshots' = [snapshots EXCEPT ![snapshot_filename] = uploaded]
           /\ snapshot' = uploaded
           /\ master' = IF err = "ok"
                        THEN [master EXCEPT ![slug] = updated_df]
                        ELSE master
           /\ session' = [session EXCEPT !.df =
                             IF err = "ok"
                             THEN filter_master_for_show(ignore, slug, updated_df)
                             ELSE df]
           /\ ret' = Ret("merge_snapshot", slug, err)
    /\ UNCHANGED <<ignore, ann, today, proc, calc>>

\* run_search_snapshot(slug, query, kind), lines 249-258: the snapshot
\* files after the search result is written to
\* data/{slug}_{YYYYMMDD}_{kind}.csv
run_search_snapshot(slug, kind, result) ==
    [snapshots EXCEPT ![build_snapshot_filename(slug, kind, utcnow)] = result]

\* a snapshot run that writes the search result over the master file
generate_snapshot_into_master(result) ==
    /\ session.df.exists
    /\ master' = [master EXCEPT ![session.slug] = result]
    /\ ret' = Ret("generate_snapshot", session.slug, "ok")
    /\ UNCHANGED <<snapshot, snapshots, ignore, ann, session, today, proc, calc>>

\* "Generate raw snapshot", lines 628-641
generate_snapshot(result) ==
    /\ session.df.exists
    /\ snapshots' = run_search_snapshot(session.slug, "raw", result)
    /\ session' = [session EXCEPT !.df =
                      filter_master_for_show(ignore, session.slug, session.df)]
    /\ ret' = Ret("generate_snapshot", session.slug, "ok")
    /\ UNCHANGED <<master, snapshot, ignore, ann, today, proc, calc>>

-----------------------------------------------------------------------------
(* A session of one day on the page of one show, opened from the library   *)
(* (with its master) or from a new search (without one); the other show    *)
(* has a master of one video.                                              *)

\* rows of a search result or of a cleaned snapshot: a video id, no title
VideoRows == {r \in RowsOver({KEY}, {}) : ~isna(r[KEY])}

VideoTables == {DataFrame({KEY}, rows) : rows \in SeqsUpTo(VideoRows, MaxRows)}

\* what the search finds for the show during the session
SearchResult ==
    DataFrame({KEY}, <<[c \in Columns |-> IF c = KEY THEN Str("v1") ELSE NA],
                       [c \in Columns |-> IF c = KEY THEN Str("v2") ELSE NA]>>)

OtherMaster ==
    DataFrame({KEY}, <<[c \in Columns |-> IF c = KEY THEN Str("v1") ELSE NA]>>)

InitApp ==
    /\ \E s \in Slugs, df \in VideoTables, saved \in BOOLEAN :
          /\ master = [x \in Slugs |->
                          IF x # s THEN OtherMaster
                          ELSE IF saved THEN df ELSE MISSING]
          /\ session = [slug |-> s, df |-> df]
    /\ snapshot = MISSING
    /\ snapshots = NoSnapshots
    /\ ignore = MISSING
    /\ ann = MISSING
    /\ today \in Days
    /\ ret = NoCall
    /\ proc = NoProcs
    /\ calc = NoCalc

NextApp ==
    \/ render_show_page
    \/ \E selected \in Selections : render_ignore_panel(selected)
    \/ \E uploaded \in VideoTables : merge_snapshot(uploaded)
    \/ generate_snapshot(SearchResult)
    \/ upsert_channel_annotations(<<[channel_id |-> "UC1", ugc |-> TRUE]>>)

SpecApp == InitApp /\ [][NextApp]_vars

(* C11: a video that is on the ignore list of a show and is not in the     *)
(* show's master (the ignore panel has appended it and scrubbed the        *)
(* master) is not in the master after a later merge either, whatever the   *)
(* merged snapshot contains.                                               *)
C11_AsStated ==
    [][\A uploaded \in VideoTables : merge_snapshot(uploaded) =>
          \A v \in IgnoredIds(ignore, session.slug) :
              v \notin editor_ids(master[session.slug])
                  => v \notin editor_ids(master'[session.slug])]_vars

(* C12: in every reachable state of a session the record set the show     *)
(* page has handed to the ignore panel and the dashboard holds no video    *)
(* that is on the ignore list of the open show.                            *)
C12_AsStated ==
    session.df.exists =>
        editor_ids(session.df) \cap IgnoredIds(ignore, session.slug) = {}

(* C13: a snapshot file that has been written is never modified or        *)
(* replaced by a later operation.                                          *)
C13_AsStated ==
    [][\A f \in DOMAIN snapshots :
          snapshots[f].exists => snapshots'[f] = snapshots[f]]_vars

-----------------------------------------------------------------------------
(* Two merges at the same time.  merge_master_with_snapshot is not one     *)
(* step: it loads the master and the snapshot (lines 92-93), computes,     *)
(* and overwrites the master (line 152); nothing in the code keeps a       *)
(* second process from running in between.                                 *)

\* lines 92-93 of process p, started for slug with its own snapshot file;
\* overlapped records that another merge of the slug has loaded the master
\* and not yet written it
load_inputs(p, slug, snapshot_df) ==
    /\ proc[p].pc = "idle"
    /\ merge_error(master[slug], snapshot_df) = "ok"
    /\ LET others == {q \in Procs \ {p} :
                         proc[q].pc = "loaded" /\ proc[q].slug = slug}
       IN  proc' = [q \in Procs |->
                       IF q = p
                       THEN [pc |-> "loaded", slug |-> slug,
                             master_df |-> master[slug],
                             snapshot_df |-> snapshot_df,
                             overlapped |-> others # {}]
                       ELSE IF q \in others
                       THEN [proc[q] EXCEPT !.overlapped = TRUE]
                       ELSE proc[q]]
    /\ UNCHANGED <<master, snapshot, snapshots, ignore, ann, session, today, ret, calc>>

\* lines 101-152 of process p: the merged table, computed from the tables
\* it loaded, replaces the master file
write_master(p) ==
    /\ proc[p].pc = "loaded"
    /\ master' = [master EXCEPT ![proc[p].slug] =
                     merged_table(proc[p].master_df, proc[p].snapshot_df, today)]
    /\ proc' = [proc EXCEPT ![p].pc = "done"]
    /\ ret' = Ret("merge_for_show", proc[p].slug, "ok")
    /\ UNCHANGED <<snapshot, snapshots, ignore, ann, session, today, calc>>

\* the cleaned snapshots the two processes are started with
RaceSnapshots == VideoTables

InitRace ==
    /\ \E m \in VideoTables :
          master = [s \in Slugs |-> IF s = "wire" THEN m ELSE MISSING]
    /\ snapshot = MISSING
    /\ snapshots = NoSnapshots
    /\ ignore = MISSING
    /\ ann = MISSING
    /\ session = NoSession
    /\ today \in Days
    /\ ret = NoCall
    /\ proc = NoProcs
    /\ calc = NoCalc

NextRace ==
    \/ \E p \in Procs, df \in RaceSnapshots : load_inputs(p, "wire", df)
    \/ \E p \in Procs : write_master(p)

SpecRace == InitRace /\ [][NextRace]_vars

\* both merges have written the master
BothDone == \A p \in Procs : proc[p].pc = "done"

\* the master lacks a key that the snapshot of one of the merges holds
LostUpdate ==
    \E p \in Procs :
        ~(keys(dropna_key(proc[p].snapshot_df)) \subseteq keys(master[proc[p].slug]))

(* C14: when the two merges of a slug ran one after the other (neither     *)
(* loaded the master while the other was between its load and its write),  *)
(* the master holds the keys of both snapshots; a lost update is reachable *)
(* only when the two merges overlap.                                       *)
C14_SerializedMergesLoseNothing ==
    (BothDone /\ LostUpdate) => \A p \in Procs : proc[p].overlapped

\* two merges overlapped and the master lacks the keys of one snapshot
C14_Witness ==
    /\ BothDone
    /\ LostUpdate
    /\ \A p \in Procs : proc[p].overlapped

\* two merges ran one after the other, each adding a key of its own
C14_WitnessSerial ==
    /\ BothDone
    /\ \A p \in Procs : ~proc[p].overlapped
    /\ keys(proc["p1"].snapshot_df) = {Str("v1")}
    /\ keys(proc["p2"].snapshot_df) = {Str("v2")}
    /\ keys(master["wire"]) = {Str("v1"), Str("v2")}

(* C15: the master of a slug is changed only by a merge for that slug and  *)
(* by the ignore panel's filter-and-rewrite for that slug: a snapshot run, *)
(* an annotation upsert, a render (filter and loads) and every step for    *)
(* another slug leave it as it is; and a merge changes neither the ignore  *)
(* list nor the annotation store.                                          *)
C15_MasterFrame ==
    [][/\ \A s \in Slugs :
            master'[s] # master[s] =>
                /\ s = session.slug
                /\ \/ \E uploaded \in VideoTables : merge_snapshot(uploaded)
                   \/ \E selected \in Selections : render_ignore_panel(selected)
       /\ (\E uploaded \in VideoTables : merge_snapshot(uploaded)) =>
                (ignore' = ignore /\ ann' = ann)]_vars

\* a merge has changed the master of the open show while an ignore list,
\* an annotation store and a raw snapshot exist and the other show's
\* master is what it was
C15_Witness ==
    /\ ret.op = "merge_snapshot" /\ ret.err = "ok"
    /\ Len(master[session.slug].rows) = 2
    /\ \A s \in Slugs \ {session.slug} : master[s] = OtherMaster
    /\ ignore.exists /\ ignore.rows # <<>>
    /\ ann.exists
    /\ snapshots[build_snapshot_filename(session.slug, "raw", today)].exists

(* C16: after any sequence of upserts the stored annotation table holds   *)
(* at most one row per channel_id, also when one call submits a channel    *)
(* several times.                                                          *)
C16_OneRowPerChannel ==
    Len(ann.rows) = Cardinality({ann.rows[i]["channel_id"] : i \in 1..Len(ann.rows)})

\* upserts on two days have stored both channels
C16_Witness ==
    /\ ret.op = "upsert_channel_annotations" /\ ret.again
    /\ Len(ann.rows) = 2
    /\ \A i \in 1..2 : ann.rows[i]["first_marked_at"].t = "date"
    /\ ann.rows[1]["last_updated_at"] # ann.rows[2]["last_updated_at"]

\* the (first_marked_at, last_updated_at) pairs stored for a channel
StoredDates(file, ch) ==
    {<<file.rows[i]["first_marked_at"], file.rows[i]["last_updated_at"]>> :
        i \in {j \in 1..Len(file.rows) : file.rows[j]["channel_id"] = Str(ch)}}

(* C17: after an upsert every submitted channel is stored with             *)
(* first_marked_at and last_updated_at both equal to the current date,     *)
(* also when it had an annotation before, and every stored channel that    *)
(* was not submitted keeps both of its dates.                              *)
C17_AsStated ==
    [][\A rows \in Submissions : upsert_channel_annotations(rows) =>
          LET submitted == {rows[i].channel_id : i \in 1..Len(rows)}
          IN  /\ \A ch \in submitted :
                    StoredDates(ann', ch) = {<<Date(today), Date(today)>>}
              /\ \A ch \in Channels \ submitted :
                    StoredDates(ann', ch) = StoredDates(ann, ch)]_vars

-----------------------------------------------------------------------------
(* analysis.py: clean_dataframe                                            *)

\* the texts of the model that pd.to_numeric parses, with their values
NumericTexts == {"7"}
numeric_value(x) == IF x = "7" THEN 7 ELSE 0

\* pd.to_numeric(cell, errors="coerce"): a number stays, a numeric text
\* becomes its number, everything else becomes NaN
to_numeric(c) ==
    IF c.t \in {"int", "float"} THEN c
    ELSE IF c.t = "str" /\ c.s \in NumericTexts THEN Integer(numeric_value(c.s))
    ELSE NA

\* astype(int) of a number: a float is truncated toward zero
astype_int(c) ==
    IF c.t = "float"
    THEN Integer(IF c.n >= 0 THEN c.n \div 2 ELSE -((-c.n) \div 2))
    ELSE c

\* clean_dataframe(df), lines 7-18, on the rows of df
clean_dataframe(rows) ==
    LET notna == SelectSeq(rows, LAMBDA r : ~isna(r.view_count))
        numeric == [i \in 1..Len(notna) |->
                       [notna[i] EXCEPT !.view_count = to_numeric(@),
                                        !.like_count = to_numeric(@)]]
        dropped == SelectSeq(numeric, LAMBDA r : ~isna(r.view_count))
    IN  [i \in 1..Len(dropped) |->
            [dropped[i] EXCEPT !.view_count = astype_int(@)]]

\* show_dashboard, line 252: the record set is cleaned
apply_clean_dataframe ==
    /\ calc.fn = "none"
    /\ calc' = [calc EXCEPT !.fn = "clean_dataframe",
                            !.out = clean_dataframe(calc.arg)]
    /\ UNCHANGED <<master, snapshot, snapshots, ignore, ann, session, today, ret, proc>>

\* view_count cells of a record set: missing, text, numeric text, integers
\* and the floats 1.5 and -0.5
ViewCells ==
    {NA, Str("abc"), Str("7"), Integer(-1), Integer(0), Integer(2), Half(3), Half(-1)}

LikeCells == {NA, Str("abc"), Integer(2)}

RawRows == [video_id : VideoIds, view_count : ViewCells, like_count : LikeCells]

InitClean ==
    /\ master = [x \in Slugs |-> MISSING]
    /\ session = NoSession
    /\ snapshot = MISSING
    /\ snapshots = NoSnapshots
    /\ ignore = MISSING
    /\ ann = MISSING
    /\ today = 1
    /\ ret = NoCall
    /\ proc = NoProcs
    /\ \E rows \in SeqsUpTo(RawRows, MaxRows) :
          calc = [fn |-> "none", arg |-> rows, out |-> <<>>]

NextClean == apply_clean_dataframe

SpecClean == InitClean /\ [][NextClean]_vars

\* a view_count that is a non-negative integer, as a number or as text
ValidCount(c) == to_numeric(c).t = "int" /\ to_numeric(c).n >= 0

(* C18: after clean_dataframe every remaining row has a view_count that is *)
(* a non-negative integer; no row whose view_count was missing, not        *)
(* numeric, negative or not an integer survives, and every row with a      *)
(* non-negative integer view_count is kept, in order.                      *)
C18_AsStated ==
    calc.fn = "clean_dataframe" =>
        /\ \A i \in 1..Len(calc.out) :
              calc.out[i].view_count.t = "int" /\ calc.out[i].view_count.n >= 0
        /\ Len(calc.out) = Len(SelectSeq(calc.arg, LAMBDA r : ValidCount(r.view_count)))
        /\ [i \in 1..Len(calc.out) |-> calc.out[i].video_id]
              = [i \in 1..Len(SelectSeq(calc.arg, LAMBDA r : ValidCount(r.view_count))) |->
                    SelectSeq(calc.arg, LAMBDA r : ValidCount(r.view_count))[i].video_id]

-----------------------------------------------------------------------------
(* app.py: compute_ugc_from_channels                                       *)

\* the results of compute_ugc_from_channels: None, or the percentage
\* num/den (the float division is taken as exact)
None == [kind |-> "None", num |-> 0, den |-> 1]
Pct(num, den) == [kind |-> "pct", num |-> num, den |-> den]

RECURSIVE SumViews(_)
\* merged["total_views"].sum()
SumViews(rows) ==
    IF rows = <<>> THEN 0 ELSE Head(rows).total_views + SumViews(Tail(rows))

\* a left join that takes a channel without annotation as UGC
joined_ugc_default_true(chan_row, annotations) ==
    LET hits == {i \in 1..Len(annotations) :
                    annotations[i]["channel_id"] = Str(chan_row.channel_id)}
    IN  IF hits = {} THEN TRUE
        ELSE \E i \in hits : to_bool(annotations[i]["ugc"])

\* lines 213-221: the ugc flag the left join on channel_id gives a row of
\* chan_df, False when no annotation matches (fillna(False))
joined_ugc(chan_row, annotations) ==
    LET hits == {i \in 1..Len(annotations) :
                    annotations[i]["channel_id"] = Str(chan_row.channel_id)}
    IN  IF hits = {} THEN FALSE
        ELSE \E i \in hits : to_bool(annotations[i]["ugc"])

\* compute_ugc_from_channels(chan_df, channel_annotations), lines 181-238,
\* its first result
compute_ugc_from_channels(chan_df, channel_annotations) ==
    IF chan_df = <<>> THEN None
    ELSE IF channel_annotations = <<>> THEN None
    ELSE LET annotations == drop_duplicates_channel(channel_annotations)
             total_views == SumViews(chan_df)
             ugc_views == SumViews(SelectSeq(chan_df,
                              LAMBDA r : joined_ugc(r, annotations)))
         IN  IF total_views <= 0 THEN Pct(0, 1)
             ELSE Pct(ugc_views * 100, total_views)

\* show_dashboard, lines 257-270: the UGC share of the channel aggregates
\* under the loaded annotations
apply_compute_ugc ==
    /\ calc.fn = "none"
    /\ calc' = [calc EXCEPT
                    !.fn = "compute_ugc_from_channels",
                    !.out = compute_ugc_from_channels(
                                calc.arg.chan_df,
                                load_channel_annotations(calc.arg.annotations))]
    /\ UNCHANGED <<master, snapshot, snapshots, ignore, ann, session, today, ret, proc>>

\* total_views of a channel aggregate; a negative total comes from
\* negative view counts
ViewTotals == {-1, 0, 1, 3}

\* rows of channel_aggregates' result
ChanRows == [channel_id : Channels, total_views : ViewTotals]

\* annotation files as upsert_channel_annotations writes them: no file, or
\* one row per channel
AnnotationFiles ==
    {MISSING} \cup
    {ann_to_csv([i \in 1..Len(chs) |->
                    [c \in AnnCols |->
                        IF c = "channel_id" THEN Str(chs[i])
                        ELSE IF c = "ugc" THEN Bool(u[chs[i]])
                        ELSE Date(1)]]) :
        chs \in {s \in SeqsUpTo(Channels, 2) :
                    \A i, j \in 1..Len(s) : i # j => s[i] # s[j]},
        u \in [Channels -> BOOLEAN]}

InitUgc ==
    /\ master = [x \in Slugs |-> MISSING]
    /\ session = NoSession
    /\ snapshot = MISSING
    /\ snapshots = NoSnapshots
    /\ ignore = MISSING
    /\ ann = MISSING
    /\ today = 1
    /\ ret = NoCall
    /\ proc = NoProcs
    /\ \E chan_df \in SeqsUpTo(ChanRows, MaxRows), file \in AnnotationFiles :
          calc = [fn |-> "none",
                  arg |-> [chan_df |-> chan_df, annotations |-> file],
                  out |-> <<>>]

NextUgc == apply_compute_ugc

SpecUgc == InitUgc /\ [][NextUgc]_vars

\* the views of the channels annotated ugc = true in the store
UgcViews(chan_df, file) ==
    SumViews(SelectSeq(chan_df, LAMBDA r :
        \E i \in 1..Len(file.rows) :
            /\ file.rows[i]["channel_id"] = Str(r.channel_id)
            /\ file.rows[i]["ugc"] = Bool(TRUE)))

\* the share the definition gives: 0.0 for a non-positive total
ExpectedShare(chan_df, file) ==
    IF SumViews(chan_df) <= 0 THEN Pct(0, 1)
    ELSE Pct(100 * UgcViews(chan_df, file), SumViews(chan_df))

\* two percentages are the same number
SameShare(a, b) ==
    a.kind = "pct" /\ b.kind = "pct" /\ a.num * b.den = b.num * a.den

(* C19 as stated: the computed ugc_pct is 100 * (views of the channels     *)
(* annotated ugc = true) / (views of all channels), a channel without      *)
(* annotation counting as non-UGC also when the store is empty, and 0.0    *)
(* when the total is not positive.                                         *)
C19_AsStated ==
    calc.fn = "compute_ugc_from_channels" =>
        SameShare(calc.out, ExpectedShare(calc.arg.chan_df, calc.arg.annotations))

(* C19 amended: the same when the channel aggregates and the annotation    *)
(* store are both non-empty; when either is empty the function returns     *)
(* None and no share is shown.                                             *)
C19_UgcShare ==
    calc.fn = "compute_ugc_from_channels" =>
        IF calc.arg.chan_df = <<>> \/ calc.arg.annotations.rows = <<>>
        THEN calc.out = None
        ELSE SameShare(calc.out,
                       ExpectedShare(calc.arg.chan_df, calc.arg.annotations))

\* a share strictly between 0 and 100 was computed for a UGC channel and a
\* channel without annotation
C19_Witness ==
    /\ calc.fn = "compute_ugc_from_channels"
    /\ calc.out = Pct(100, 4)
    /\ Len(calc.arg.annotations.rows) = 1
    /\ Len(calc.arg.chan_df) = 2

\* the total is not positive and the share is 0.0
C19_WitnessZero ==
    /\ calc.fn = "compute_ugc_from_channels"
    /\ calc.out = Pct(0, 1)
    /\ SumViews(calc.arg.chan_df) < 0
    /\ UgcViews(calc.arg.chan_df, calc.arg.annotations) # 0

-----------------------------------------------------------------------------
(* library.py: slugify_show_name.  A string is the sequence of its         *)
(* characters.                                                             *)

\* the characters of the model: letters in both cases, a digit, the
\* underscore, the double quote, punctuation, and white space
Chars == {"A", "a", "1", "_", "\"", "!", " ", "\t"}

Whitespace == {" ", "\t"}

\* str.isalnum() of a character
isalnum(ch) == ch \in {"A", "a", "1"}

\* a filter that keeps the double quote as well
kept_or_quote(ch) == isalnum(ch) \/ ch = "_" \/ ch = "\""

\* line 21: ch.isalnum() or ch == "_"
kept(ch) == isalnum(ch) \/ ch = "_"

\* a lower() that leaves every character as it is
lower_identity(s) == s

\* str.lower()
lower(s) == [i \in 1..Len(s) |-> IF s[i] = "A" THEN "a" ELSE s[i]]

RECURSIVE lstrip(_)
lstrip(s) ==
    IF s # <<>> /\ Head(s) \in Whitespace THEN lstrip(Tail(s)) ELSE s

RECURSIVE rstrip(_)
rstrip(s) ==
    IF s # <<>> /\ s[Len(s)] \in Whitespace
    THEN rstrip(SubSeq(s, 1, Len(s) - 1))
    ELSE s

\* str.strip()
strip(s) == rstrip(lstrip(s))

\* s[1:-1]
inner(s) == SubSeq(s, 2, Len(s) - 1)

\* slugify_show_name(raw_name), lines 8-21
slugify_show_name(raw_name) ==
    LET s1 == lower(strip(raw_name))
        s2 == IF s1 # <<>> /\ Head(s1) = "\"" /\ s1[Len(s1)] = "\""
              THEN inner(s1) ELSE s1
        s3 == [i \in 1..Len(s2) |-> IF s2[i] = " " THEN "_" ELSE s2[i]]
    IN  SelectSeq(s3, kept)

\* render_home, line 533: the slug of the typed search term; a slug can be
\* given to slugify_show_name again
apply_slugify_show_name ==
    /\ calc' = [fn |-> "slugify_show_name",
                arg |-> IF calc.fn = "none" THEN calc.arg ELSE calc.out,
                out |-> slugify_show_name(
                            IF calc.fn = "none" THEN calc.arg ELSE calc.out)]
    /\ calc' # calc
    /\ UNCHANGED <<master, snapshot, snapshots, ignore, ann, session, today, ret, proc>>

InitSlug ==
    /\ master = [x \in Slugs |-> MISSING]
    /\ session = NoSession
    /\ snapshot = MISSING
    /\ snapshots = NoSnapshots
    /\ ignore = MISSING
    /\ ann = MISSING
    /\ today = 1
    /\ ret = NoCall
    /\ proc = NoProcs
    /\ \E raw_name \in SeqsUpTo(Chars, MaxLen) :
          calc = [fn |-> "none", arg |-> raw_name, out |-> <<>>]

NextSlug == apply_slugify_show_name

SpecSlug == InitSlug /\ [][NextSlug]_vars

(* C20: slugify_show_name returns a slug for every input string, and the   *)
(* slug of a slug is that slug: slugify(slugify(x)) = slugify(x).          *)
C20_SlugifyIdempotent ==
    calc.fn = "slugify_show_name" =>
        /\ calc.out \in SeqsUpTo(Chars, MaxLen)
        /\ slugify_show_name(calc.out) = calc.out

\* the slug of a quoted name with outer white space and an inner quote
C20_Witness ==
    /\ calc.fn = "slugify_show_name"
    /\ calc.arg = <<" ", "\"", "\"", "A">>
    /\ calc.out = <<"a">>

\* a name that reduces to the empty slug
C20_WitnessEmpty ==
    /\ calc.fn = "slugify_show_name"
    /\ calc.arg = <<"\"", "!", "\t", "\"">>
    /\ calc.out = <<>>

\* a slug was given to slugify_show_name again
C20_WitnessTwice ==
    /\ calc.fn = "slugify_show_name"
    /\ calc.arg = <<"_", "a", "_">>
    /\ calc.out = calc.arg

(* C21 as stated: the slug is the result of the reference transformation  *)
(* (trim the outer white space, lower-case, remove one layer of            *)
(* surrounding double quotes, replace each space by an underscore, delete  *)
(* every character that is not alphanumeric or underscore); it consists    *)
(* only of lower-case alphanumerics and underscores; and a query in        *)
(* surrounding quotes has the slug of the query without them.              *)
C21_AsStated ==
    (calc.fn = "slugify_show_name") =>
        LET x == calc.arg
            trimmed == SubSeqAt(x, {i \in 1..Len(x) :
                           /\ \E j \in 1..i : x[j] \notin Whitespace
                           /\ \E j \in i..Len(x) : x[j] \notin Whitespace})
            lowered == [i \in 1..Len(trimmed) |->
                           IF trimmed[i] = "A" THEN "a" ELSE trimmed[i]]
            quoted == Len(lowered) >= 1 /\ lowered[1] = "\""
                          /\ lowered[Len(lowered)] = "\""
            core == IF quoted THEN SubSeqAt(lowered, 2..(Len(lowered) - 1))
                    ELSE lowered
            spaced == [i \in 1..Len(core) |-> IF core[i] = " " THEN "_" ELSE core[i]]
        IN  /\ calc.out = SubSeqAt(spaced, {i \in 1..Len(spaced) :
                                               spaced[i] \in {"a", "1", "_"}})
            /\ \A i \in 1..Len(calc.out) : calc.out[i] \in {"a", "1", "_"}
            /\ (Len(x) >= 2 /\ x[1] = "\"" /\ x[Len(x)] = "\"")
                  => calc.out = slugify_show_name(inner(x))

(* C21 amended: the same, the query in surrounding quotes having the slug  *)
(* of the query without them when the text between the quotes neither      *)
(* starts nor ends with white space.                                       *)
C21_SlugifyReference ==
    (calc.fn = "slugify_show_name") =>
        LET x == calc.arg
            trimmed == SubSeqAt(x, {i \in 1..Len(x) :
                           /\ \E j \in 1..i : x[j] \notin Whitespace
                           /\ \E j \in i..Len(x) : x[j] \notin Whitespace})
            lowered == [i \in 1..Len(trimmed) |->
                           IF trimmed[i] = "A" THEN "a" ELSE trimmed[i]]
            quoted == Len(lowered) >= 1 /\ lowered[1] = "\""
                          /\ lowered[Len(lowered)] = "\""
            core == IF quoted THEN SubSeqAt(lowered, 2..(Len(lowered) - 1))
                    ELSE lowered
            spaced == [i \in 1..Len(core) |-> IF core[i] = " " THEN "_" ELSE core[i]]
        IN  /\ calc.out = SubSeqAt(spaced, {i \in 1..Len(spaced) :
                                               spaced[i] \in {"a", "1", "_"}})
            /\ \A i \in 1..Len(calc.out) : calc.out[i] \in {"a", "1", "_"}
            /\ (Len(x) >= 2 /\ x[1] = "\"" /\ x[Len(x)] = "\""
                    /\ strip(inner(x)) = inner(x))
                  => calc.out = slugify_show_name(inner(x))

\* the slug of a quoted name with an upper-case letter, a space and
\* punctuation between the quotes
C21_Witness ==
    /\ calc.fn = "slugify_show_name"
    /\ calc.arg \in {<<"\"", "A", "\"">>, <<"\"", "A", "!", "\"">>}
    /\ calc.out = <<"a">>

\* the slug of a name with an inner space
C21_WitnessSpace ==
    /\ calc.fn = "slugify_show_name"
    /\ calc.arg = <<"A", " ", "1", "!">>
    /\ calc.out = <<"a", "_", "1">>

-----------------------------------------------------------------------------
(* youtube_client.py: youtube_search.  A result page is the sequence of    *)
(* the videoIds of its items; a record is identified by its video_id.      *)

Min(a, b) == IF a <= b THEN a ELSE b

\* the ids of a page taken as new without looking at the earlier pages
new_video_ids_all(items, video_ids_set) == items

\* lines 70-74: the ids of a page that no earlier page has listed
new_video_ids(items, video_ids_set) ==
    SelectSeq(items, LAMBDA v : v \notin video_ids_set)

\* youtube.videos().list(id=...), lines 82-85: the API answers with one
\* item for each requested video that is available, whatever the number
\* of times its id is in the request, in the order of the request or in
\* the opposite order
videos_list(ids, api) ==
    LET first == SubSeqAt(ids, {i \in 1..Len(ids) :
                     /\ ids[i] \in api.available
                     /\ \A j \in 1..(i - 1) : ids[j] # ids[i]})
    IN  IF api.reversed
        THEN [i \in 1..Len(first) |-> first[Len(first) + 1 - i]]
        ELSE first

RECURSIVE search_loop(_, _, _, _, _)
\* the while loop of lines 68-133: pages holds the current response and
\* the responses behind its nextPageToken
search_loop(pages, videos, video_ids_set, max_results, api) ==
    IF pages = <<>> \/ Len(videos) >= max_results THEN videos
    ELSE LET ids == new_video_ids(Head(pages), video_ids_set)
             items == videos_list(ids, api)
             appended == videos \o SubSeq(items, 1,
                             Min(Len(items), max_results - Len(videos)))
         IN  IF ids = <<>> THEN videos
             ELSE IF Len(appended) >= max_results THEN appended
             ELSE search_loop(Tail(pages), appended,
                              video_ids_set \cup Range(ids), max_results, api)

\* youtube_search(query, max_results), lines 35-142: the video_ids of the
\* returned records
youtube_search(pages, max_results, api) ==
    LET videos == search_loop(pages, <<>>, {}, max_results, api)
    IN  SubSeq(videos, 1, Min(Len(videos), max_results))

\* run_search_snapshot, line 249: the search is run
apply_youtube_search ==
    /\ calc.fn = "none"
    /\ calc' = [calc EXCEPT
                    !.fn = "youtube_search",
                    !.out = youtube_search(calc.arg.pages, calc.arg.max_results,
                                           calc.arg.api)]
    /\ UNCHANGED <<master, snapshot, snapshots, ignore, ann, session, today, ret, proc>>

\* the result pages of a query: at least the first response, each page
\* listing up to MaxRows ids, repeats allowed
ResultPages == SeqsUpTo(SeqsUpTo(VideoIds, MaxRows), MaxPages) \ {<<>>}

InitSearch ==
    /\ master = [x \in Slugs |-> MISSING]
    /\ session = NoSession
    /\ snapshot = MISSING
    /\ snapshots = NoSnapshots
    /\ ignore = MISSING
    /\ ann = MISSING
    /\ today = 1
    /\ ret = NoCall
    /\ proc = NoProcs
    /\ \E pages \in ResultPages, max_results \in 1..MaxResults,
          available \in SUBSET VideoIds, reversed \in BOOLEAN :
          calc = [fn |-> "none",
                  arg |-> [pages |-> pages, max_results |-> max_results,
                           api |-> [available |-> available, reversed |-> reversed]],
                  out |-> <<>>]

NextSearch == apply_youtube_search

SpecSearch == InitSearch /\ [][NextSearch]_vars

C22_WitnessCap ==
    /\ calc.fn = "youtube_search"
    /\ calc.arg.max_results = 1
    /\ calc.arg.pages = <<<<"v1", "v2">>>>
    /\ calc.out = <<"v2">>

-----------------------------------------------------------------------------
(* analysis.py: summarize_engagement and channel_aggregates on a cleaned   *)
(* record set: view_count is an integer in every row, the other cells may  *)
(* be missing.                                                             *)

RECURSIVE sum(_)
\* Series.sum() of a sequence of integers
sum(values) == IF values = <<>> THEN 0 ELSE Head(values) + sum(Tail(values))

view_counts(rows) == [i \in 1..Len(rows) |-> rows[i].view_count]

\* a float that is the quotient of two integers; den = 0 is NaN
Ratio(num, den) == [num |-> num, den |-> den]

\* Series.mean() taken also of the empty record set: NaN
avg_views_unguarded(rows) == Ratio(sum(view_counts(rows)), Len(rows))

\* line 23: float(df["view_count"].mean()) if not df.empty else 0.0
avg_views(rows) ==
    IF rows # <<>> THEN Ratio(sum(view_counts(rows)), Len(rows)) ELSE Ratio(0, 1)

\* summarize_engagement(df), lines 21-30
summarize_engagement(rows) ==
    [video_count |-> Len(rows),
     total_views |-> sum(view_counts(rows)),
     avg_views |-> avg_views(rows)]

\* channel titles and ids in the order groupby sorts them
TitleOrder == <<"A", "B">>
IdOrder == <<"UC1", "UC2">>
KeyOrder ==
    [k \in 1..(Len(TitleOrder) * Len(IdOrder)) |->
        <<TitleOrder[((k - 1) \div Len(IdOrder)) + 1],
          IdOrder[((k - 1) % Len(IdOrder)) + 1]>>]

\* the rows of the group of key k: both channel cells equal the key
group_rows(rows, k) ==
    SelectSeq(rows, LAMBDA r : r.channel_title = Str(k[1]) /\ r.channel_id = Str(k[2]))

\* lines 71-73: the channel page of a channel id, "" for a falsy id
channel_url(cid) ==
    IF cid.t = "str" /\ cid.s # ""
    THEN "https://www.youtube.com/channel/" \o cid.s
    ELSE ""

\* lines 58-65: groupby(["channel_title", "channel_id"]).agg(...): one row
\* per key in key order; a row with a missing channel_title or channel_id
\* belongs to no group (dropna of groupby); count("video_id") counts the
\* video_ids that are not missing
grouped(rows) ==
    LET present == SelectSeq(KeyOrder, LAMBDA k : group_rows(rows, k) # <<>>)
    IN  [i \in 1..Len(present) |->
            LET g == group_rows(rows, present[i])
            IN  [channel_title |-> Str(present[i][1]),
                 channel_id |-> Str(present[i][2]),
                 video_count |-> Len(SelectSeq(g, LAMBDA r : ~isna(r.video_id))),
                 total_views |-> sum(view_counts(g))]]

\* line 68: sort_values("total_views", ascending=False); equal totals keep
\* the order of the groups
sort_total_views(g) ==
    LET pos(i) == 1 + Cardinality({j \in 1..Len(g) :
                         \/ g[j].total_views > g[i].total_views
                         \/ g[j].total_views = g[i].total_views /\ j < i})
    IN  [p \in 1..Len(g) |-> g[CHOOSE i \in 1..Len(g) : pos(i) = p]]

\* head(top_n): every row when top_n is None
head(rows, top_n) ==
    IF top_n.given THEN SubSeq(rows, 1, Min(Len(rows), top_n.n)) ELSE rows

\* channel_aggregates(df, top_n), lines 46-75
channel_aggregates(rows, top_n) ==
    LET top == head(sort_total_views(grouped(rows)), top_n)
    IN  [i \in 1..Len(top) |->
            [channel_title |-> top[i].channel_title,
             channel_id |-> top[i].channel_id,
             video_count |-> top[i].video_count,
             total_views |-> top[i].total_views,
             channel_url |-> channel_url(top[i].channel_id)]]

\* show_dashboard, line 263: the summary metrics are computed
apply_summarize_engagement ==
    /\ calc.fn = "none"
    /\ calc' = [calc EXCEPT !.fn = "summarize_engagement",
                            !.out = summarize_engagement(calc.arg.rows)]
    /\ UNCHANGED <<master, snapshot, snapshots, ignore, ann, session, today, ret, proc>>

\* show_dashboard, line 258: the channels are aggregated
apply_channel_aggregates ==
    /\ calc.fn = "none"
    /\ calc' = [calc EXCEPT !.fn = "channel_aggregates",
                            !.out = channel_aggregates(calc.arg.rows, calc.arg.top_n)]
    /\ UNCHANGED <<master, snapshot, snapshots, ignore, ann, session, today, ret, proc>>

\* cells of a cleaned record set
ChannelTitleCells == {NA} \cup {Str(x) : x \in Range(TitleOrder)}
ChannelIdCells == {NA} \cup {Str(x) : x \in Range(IdOrder)}
CleanedRows ==
    [video_id : {NA, Str("v1")}, channel_title : ChannelTitleCells,
     channel_id : ChannelIdCells, view_count : {1, 2}]

\* top_n: None or a number of rows
TopN == {[given |-> FALSE, n |-> 0]} \cup {[given |-> TRUE, n |-> k] : k \in 1..MaxRows}

InitStats ==
    /\ master = [x \in Slugs |-> MISSING]
    /\ session = NoSession
    /\ snapshot = MISSING
    /\ snapshots = NoSnapshots
    /\ ignore = MISSING
    /\ ann = MISSING
    /\ today = 1
    /\ ret = NoCall
    /\ proc = NoProcs
    /\ \E rows \in SeqsUpTo(CleanedRows, MaxRows), top_n \in TopN :
          calc = [fn |-> "none", arg |-> [rows |-> rows, top_n |-> top_n], out |-> <<>>]

NextStats ==
    \/ apply_summarize_engagement
    \/ apply_channel_aggregates

SpecStats == InitStats /\ [][NextStats]_vars

\* the view counts of a record set added up from the last row
TotalOf(rows) ==
    LET RECURSIVE upto(_)
        upto(n) == IF n = 0 THEN 0 ELSE upto(n - 1) + rows[n].view_count
    IN  upto(Len(rows))

(* C23: summarize_engagement returns video_count = number of records,      *)
(* total_views = sum of view_count and avg_views = total_views /           *)
(* video_count, and 0, 0 and 0.0 for the empty record set.                 *)
C23_Summary ==
    (calc.fn = "summarize_engagement") =>
        LET rows == calc.arg.rows
            s == calc.out
        IN  /\ s.video_count = Len(rows)
            /\ s.total_views = TotalOf(rows)
            /\ s.avg_views.den # 0
            /\ s.avg_views.num * s.video_count = s.total_views * s.avg_views.den
            /\ rows = <<>> =>
                  s = [video_count |-> 0, total_views |-> 0, avg_views |-> Ratio(0, 1)]

\* the summary of the empty record set
C23_Witness ==
    /\ calc.fn = "summarize_engagement"
    /\ calc.arg.rows = <<>>
    /\ calc.out.avg_views = Ratio(0, 1)

\* the summary of two records: 3 views, 1.5 on average
C23_WitnessMean ==
    /\ calc.fn = "summarize_engagement"
    /\ Len(calc.arg.rows) = 2
    /\ calc.out.total_views = 3
    /\ calc.out.avg_views = Ratio(3, 2)

\* the (channel_title, channel_id) pairs of a record set, missing cells
\* included, and the views of the records of a pair
PairsOf(rows) == {<<r.channel_title, r.channel_id>> : r \in Range(rows)}
PairViews(rows, pr) ==
    TotalOf(SelectSeq(rows, LAMBDA r : <<r.channel_title, r.channel_id>> = pr))
Returned(out) == {<<out[i].channel_title, out[i].channel_id>> : i \in 1..Len(out)}

(* C24: the rows channel_aggregates returns are in non-increasing order of *)
(* total_views, number at most top_n when top_n is given, and no omitted   *)
(* (channel_title, channel_id) group has strictly more total_views than a  *)
(* returned one.                                                           *)
C24_AsStated ==
    (calc.fn = "channel_aggregates") =>
        LET rows == calc.arg.rows
            out == calc.out
        IN  /\ \A i \in 1..(Len(out) - 1) : out[i].total_views >= out[i + 1].total_views
            /\ calc.arg.top_n.given => Len(out) <= calc.arg.top_n.n
            /\ \A pr \in PairsOf(rows) \ Returned(out) :
                  \A i \in 1..Len(out) : PairViews(rows, pr) <= out[i].total_views

\* the same for the groups whose channel_title and channel_id are both there
C24_KeyedGroups ==
    (calc.fn = "channel_aggregates") =>
        LET rows == calc.arg.rows
            out == calc.out
        IN  /\ \A i \in 1..(Len(out) - 1) : out[i].total_views >= out[i + 1].total_views
            /\ calc.arg.top_n.given => Len(out) <= calc.arg.top_n.n
            /\ \A pr \in PairsOf(rows) \ Returned(out) :
                  ~isna(pr[1]) /\ ~isna(pr[2]) =>
                      \A i \in 1..Len(out) : PairViews(rows, pr) <= out[i].total_views

RECURSIVE SumOf(_, _)
SumOf(out, col) == IF out = <<>> THEN 0 ELSE Head(out)[col] + SumOf(Tail(out), col)

(* C30: channel_aggregates(R, top_n=None) has one row per distinct         *)
(* (channel_title, channel_id) pair of R, its video_count adds up to the   *)
(* number of records of R and its total_views to the total_views of        *)
(* summarize_engagement(R), records with a missing channel_id or           *)
(* channel_title included.                                                 *)
C30_AsStated ==
    (calc.fn = "channel_aggregates" /\ ~calc.arg.top_n.given) =>
        LET rows == calc.arg.rows
            out == calc.out
        IN  /\ Len(out) = Cardinality(PairsOf(rows))
            /\ SumOf(out, "video_count") = Len(rows)
            /\ SumOf(out, "total_views") = summarize_engagement(rows).total_views

\* the same for record sets without a missing video_id, channel_title or
\* channel_id
C30_CompleteRecords ==
    (/\ calc.fn = "channel_aggregates" /\ ~calc.arg.top_n.given
     /\ \A r \in Range(calc.arg.rows) :
           ~isna(r.video_id) /\ ~isna(r.channel_title) /\ ~isna(r.channel_id)) =>
        LET rows == calc.arg.rows
            out == calc.out
        IN  /\ Len(out) = Cardinality(PairsOf(rows))
            /\ SumOf(out, "video_count") = Len(rows)
            /\ SumOf(out, "total_views") = summarize_engagement(rows).total_views

-----------------------------------------------------------------------------
(* A sequence of merges into one master: cleaned snapshots without         *)
(* pipeline columns are placed under data/ one after the other, and the    *)
(* date does not go back.                                                  *)

\* a cleaned snapshot is written to data/ (run_search_snapshot, or a file
\* the user copies there); it replaces the snapshot file of the next merge
place_snapshot(df) ==
    /\ snapshot' = df
    /\ snapshot' # snapshot
    /\ ret' = Ret("snapshot", "", "ok")
    /\ UNCHANGED <<master, snapshots, ignore, ann, session, today, proc, calc>>

\* midnight passes
NextDay ==
    /\ today < MaxDay
    /\ today' = today + 1
    /\ UNCHANGED <<master, snapshot, snapshots, ignore, ann, session, ret, proc, calc>>

\* tables holding only the key column, a missing key included
KeyTables == {DataFrame({KEY}, rows) : rows \in SeqsUpTo(RowsOver({KEY}, {}), MaxRows)}

InitSeq ==
    /\ \E m \in KeyTables :
          master = [s \in Slugs |-> IF s = "wire" THEN m ELSE MISSING]
    /\ snapshot \in KeyTables
    /\ snapshots = NoSnapshots
    /\ ignore = MISSING
    /\ ann = MISSING
    /\ session = NoSession
    /\ today = 1
    /\ ret = NoCall
    /\ proc = NoProcs
    /\ calc = NoCalc

NextSeq ==
    \/ \E s \in Slugs : merge_for_show(s)
    \/ \E df \in KeyTables : place_snapshot(df)
    \/ NextDay

SpecSeq == InitSeq /\ [][NextSeq]_vars

(* C25: after a merge present_in_latest_snapshot is true for exactly the   *)
(* rows whose key occurs in the snapshot (its null-key rows dropped) and   *)
(* false for every other row, whatever the flag was in the master.         *)
C25_PresenceFlag ==
    [][\A s \in Slugs : MergeOk(s) =>
          \A i \in 1..Len(master'[s].rows) :
              LET r == master'[s].rows[i]
              IN  r["present_in_latest_snapshot"] =
                      Bool(\E j \in 1..Len(snapshot.rows) :
                              /\ ~isna(snapshot.rows[j][KEY])
                              /\ snapshot.rows[j][KEY] = r[KEY])]_vars

\* a row seen by an earlier merge is absent from the snapshot of the last
\* merge: its flag is false
C25_Witness ==
    /\ ret.op = "merge_for_show" /\ ret.err = "ok"
    /\ \E i \in 1..Len(master["wire"].rows) :
          LET r == master["wire"].rows[i]
          IN  /\ r["present_in_latest_snapshot"] = Bool(FALSE)
              /\ ~isna(r["last_seen_snapshot_date"])
              /\ r[KEY] \notin keys(snapshot)

\* a master row without key, and a snapshot row without key
C25_WitnessNullKey ==
    /\ ret.op = "merge_for_show" /\ ret.err = "ok"
    /\ NA \in keys(snapshot)
    /\ \E i \in 1..Len(master["wire"].rows) :
          LET r == master["wire"].rows[i]
          IN  isna(r[KEY]) /\ r["present_in_latest_snapshot"] = Bool(FALSE)

\* the dates of a merge: every row is stamped with the date of the merge, a
\* row of the snapshot is last seen on it, any other row keeps the date it
\* was last seen on in the master
MergeDates ==
    \A s \in Slugs : MergeOk(s) =>
        \A i \in 1..Len(master'[s].rows) :
            LET r == master'[s].rows[i]
            IN  /\ r["last_merged_on"] = Date(today)
                /\ r[KEY] \in keys(S0) => r["last_seen_snapshot_date"] = Date(today)
                /\ r[KEY] \notin keys(S0) =>
                      r["last_seen_snapshot_date"] =
                          LastRow(master[s], r[KEY])["last_seen_snapshot_date"]

\* the rows of the masters that a merge has written
MergedRows ==
    UNION {Range(master[s].rows) : s \in {x \in Slugs : "last_merged_on" \in master[x].cols}}

SeenBeforeMerged(r) ==
    \/ isna(r["last_seen_snapshot_date"])
    \/ r["last_seen_snapshot_date"].n <= r["last_merged_on"].n

(* C26: after a merge on date d every row of the snapshot has              *)
(* last_seen_snapshot_date = d, every other row keeps the date it had in   *)
(* the master, and every row has last_merged_on = d; after any sequence of *)
(* merges each row's last_seen_snapshot_date is null or <= its             *)
(* last_merged_on, with equality exactly on the rows present in the latest *)
(* snapshot.                                                               *)
C26_AsStated ==
    /\ [][MergeDates]_vars
    /\ [](\A r \in MergedRows :
            /\ SeenBeforeMerged(r)
            /\ (r["last_seen_snapshot_date"] = r["last_merged_on"])
                   <=> (r["present_in_latest_snapshot"] = Bool(TRUE)))

(* C26, amended: the same, with equality on every row present in the       *)
(* latest snapshot, and on no other row when the merge runs on a later     *)
(* date than the merge before it.                                          *)
C26_SeenDates ==
    /\ [][MergeDates]_vars
    /\ [](\A r \in MergedRows :
            /\ SeenBeforeMerged(r)
            /\ (r["present_in_latest_snapshot"] = Bool(TRUE))
                   => (r["last_seen_snapshot_date"] = r["last_merged_on"]))
    /\ [][\A s \in Slugs :
            (/\ MergeOk(s)
             /\ \A r \in Range(master[s].rows) :
                   isna(r["last_merged_on"]) \/ r["last_merged_on"].n < today) =>
                \A r \in Range(master'[s].rows) :
                    (r["last_seen_snapshot_date"] = r["last_merged_on"])
                        <=> (r["present_in_latest_snapshot"] = Bool(TRUE))]_vars

\* after merges on two dates: a row last seen on the first date and a row
\* of the latest snapshot
C26_Witness ==
    /\ ret.op = "merge_for_show" /\ ret.err = "ok"
    /\ \E r1, r2 \in Range(master["wire"].rows) :
          /\ r1["present_in_latest_snapshot"] = Bool(FALSE)
          /\ r1["last_seen_snapshot_date"] = Date(1)
          /\ r1["last_merged_on"] = Date(2)
          /\ r2["present_in_latest_snapshot"] = Bool(TRUE)
          /\ r2["last_seen_snapshot_date"] = Date(2)
          /\ r2["last_merged_on"] = Date(2)

\* two merges on the same date: a row absent from the second snapshot is
\* dated as the merge
C26_WitnessSameDay ==
    /\ ret.op = "merge_for_show" /\ ret.err = "ok"
    /\ \E r \in Range(master["wire"].rows) :
          /\ r["present_in_latest_snapshot"] = Bool(FALSE)
          /\ r["last_seen_snapshot_date"] = r["last_merged_on"]

-----------------------------------------------------------------------------
\* the title of the last row of df with key k, NA when df has no such row
LastTitle(df, k) ==
    LET I == {i \in 1..Len(df.rows) : df.rows[i][KEY] = k}
    IN  IF I = {} THEN NA
        ELSE df.rows[CHOOSE i \in I : \A j \in I : j <= i]["title"]

(* C27: with several rows of the same key in the master or the snapshot,   *)
(* each side counts with the last row of the key: the merged row takes the *)
(* non-null value of the snapshot's last row, else the value of the        *)
(* master's last row, never a value of an earlier duplicate, and the       *)
(* result has one row per key.                                             *)
C27_LastOccurrence ==
    [][\A s \in Slugs : MergeOk(s) =>
          /\ \A i, j \in 1..Len(master'[s].rows) :
                i # j => master'[s].rows[i][KEY] # master'[s].rows[j][KEY]
          /\ \A i \in 1..Len(master'[s].rows) :
                LET r == master'[s].rows[i]
                    fromSnapshot == IF isna(r[KEY]) THEN NA ELSE LastTitle(snapshot, r[KEY])
                IN  r["title"] = IF ~isna(fromSnapshot) THEN fromSnapshot
                                 ELSE LastTitle(master[s], r[KEY])]_vars

\* the snapshot holds a key twice, with a title in the first row and none
\* in the last: the merged row has the master's title
C27_Witness ==
    /\ ret.op = "merge_for_show" /\ ret.err = "ok" /\ ~ret.again
    /\ Len(snapshot.rows) = 2
    /\ snapshot.rows[1][KEY] = Str("v1") /\ snapshot.rows[1]["title"] = Str("new")
    /\ snapshot.rows[2][KEY] = Str("v1") /\ snapshot.rows[2]["title"] = NA
    /\ \E r \in Range(master["wire"].rows) : r[KEY] = Str("v1") /\ r["title"] = Str("old")

\* the snapshot holds a key twice, without title in the first row and with
\* one in the last: the merged row has the snapshot's title
C27_WitnessSnapshotLast ==
    /\ ret.op = "merge_for_show" /\ ret.err = "ok"
    /\ Len(snapshot.rows) = 2
    /\ snapshot.rows[1][KEY] = Str("v1") /\ snapshot.rows[1]["title"] = NA
    /\ snapshot.rows[2][KEY] = Str("v1") /\ snapshot.rows[2]["title"] = Str("new")
    /\ \E r \in Range(master["wire"].rows) : r[KEY] = Str("v1") /\ r["title"] = Str("new")

-----------------------------------------------------------------------------
(* Submissions that may be empty, on stores that may hold duplicates       *)
(* written by hand                                                         *)

\* an ignore list in which a pair is stored twice
DuplicateIgnores ==
    [exists |-> TRUE,
     cols |-> {"slug", "video_id", "reason", "first_marked_at"},
     rows |-> <<[slug |-> "wire", video_id |-> "v1", reason |-> "not_show",
                 first_marked_at |-> 1],
                [slug |-> "wire", video_id |-> "v1", reason |-> "user_marked_in_ui",
                 first_marked_at |-> 1]>>]

\* an annotation file in which a channel is stored twice
DuplicateAnnotations ==
    [exists |-> TRUE,
     cols |-> {"channel_id", "ugc"},
     rows |-> [i \in 1..2 |->
                 [c \in AnnCols |->
                     IF c = "channel_id" THEN Str("UC1")
                     ELSE IF c = "ugc" THEN Bool(i = 1) ELSE NA]]]

\* the selections and submissions of the panels: nothing, or the one
\* video and the one channel of the show
SelectionsOrNone == {<<>>, <<"v1">>}
SubmissionsOrNone == {<<>>} \cup {<<[channel_id |-> "UC1", ugc |-> u]>> : u \in BOOLEAN}

InitEmpty ==
    /\ master = [x \in Slugs |-> MISSING]
    /\ session = NoSession
    /\ snapshot = MISSING
    /\ snapshots = NoSnapshots
    /\ ignore \in {MISSING, DuplicateIgnores}
    /\ ann \in {MISSING, DuplicateAnnotations}
    /\ today \in Days
    /\ ret = NoCall
    /\ proc = NoProcs
    /\ calc = NoCalc

NextEmpty ==
    \/ \E rows \in SelectionsOrNone :
          append_ignores_for_show("wire", rows, "user_marked_in_ui")
    \/ \E rows \in SubmissionsOrNone : upsert_channel_annotations(rows)
    \/ Tick

SpecEmpty == InitEmpty /\ [][NextEmpty]_vars

(* C28: append_ignores_for_show and upsert_channel_annotations called with *)
(* an empty row set leave the ignore list and the annotation store exactly *)
(* as they were: no file is created or rewritten, no date is advanced and  *)
(* no stored duplicate is removed.                                         *)
C28_EmptySubmissionWritesNothing ==
    [][(\/ \E s \in Slugs, reason \in Reasons : append_ignores_for_show(s, <<>>, reason)
        \/ upsert_channel_annotations(<<>>))
          => /\ ignore' = ignore
             /\ ann' = ann
             /\ master' = master]_vars

\* an empty selection was submitted while no ignore list existed, and none
\* exists
C28_Witness ==
    /\ ret.op = "append_ignores_for_show"
    /\ ~ignore.exists

\* an empty submission on an annotation file holding a channel twice
C28_WitnessDuplicates ==
    /\ ret.op = "upsert_channel_annotations"
    /\ ann = DuplicateAnnotations

\* an empty selection on an ignore list holding a pair twice
C28_WitnessDuplicateIgnores ==
    /\ ret.op = "append_ignores_for_show"
    /\ ignore = DuplicateIgnores

-----------------------------------------------------------------------------
(* Two snapshots merged into one master one after the other, in both       *)
(* orders: the first merge on date 1, the second on date MaxDay            *)

\* titles of the rows of the second snapshot
LaterTitles == {"newer"}

\* tables with key and title, every row with a key
KeyedTables(titles) ==
    {df \in InputTables(titles) :
        /\ df.cols = {KEY, "title"}
        /\ \A i \in 1..Len(df.rows) : ~isna(df.rows[i][KEY])}

\* merge_for_show run with snapshot a and then with snapshot b
serial_merges(master_df, a, b) ==
    merged_table(merged_table(master_df, a, 1), b, MaxDay)

\* the two snapshots are merged into the master, in the one order and in
\* the other
apply_serial_merges ==
    /\ calc.fn = "none"
    /\ calc' = [calc EXCEPT
                   !.fn = "serial_merges",
                   !.out = [s1_s2 |-> serial_merges(calc.arg.master, calc.arg.s1, calc.arg.s2),
                            s2_s1 |-> serial_merges(calc.arg.master, calc.arg.s2, calc.arg.s1)]]
    /\ UNCHANGED <<master, snapshot, snapshots, ignore, ann, session, today, ret, proc>>

InitOrder ==
    /\ master = [x \in Slugs |-> MISSING]
    /\ session = NoSession
    /\ snapshot = MISSING
    /\ snapshots = NoSnapshots
    /\ ignore = MISSING
    /\ ann = MISSING
    /\ today = 1
    /\ ret = NoCall
    /\ proc = NoProcs
    /\ \E m \in KeyedTables(MasterTitles), s1 \in KeyedTables(SnapshotTitles),
          s2 \in KeyedTables(LaterTitles) :
          calc = [fn |-> "none", arg |-> [master |-> m, s1 |-> s1, s2 |-> s2],
                  out |-> <<>>]

NextOrder == apply_serial_merges

SpecOrder == InitOrder /\ [][NextOrder]_vars

\* in the table out, merged last with the snapshot last: the keys are those
\* of the three tables, a key of both snapshots with a title in both has
\* the title of last, and the flag tells the keys of last
LastMergedWins(out, m, first, last) ==
    /\ keys(out) = keys(m) \cup keys(first) \cup keys(last)
    /\ \A r \in Range(out.rows) :
          /\ r["present_in_latest_snapshot"] = Bool(r[KEY] \in keys(last))
          /\ (/\ r[KEY] \in keys(first) \cap keys(last)
              /\ ~isna(LastTitle(first, r[KEY]))
              /\ ~isna(LastTitle(last, r[KEY])))
                => r["title"] = LastTitle(last, r[KEY])

(* C29: merging S1 then S2 and merging S2 then S1 into a master M yield    *)
(* masters with the same key set keys(M) + keys(S1) + keys(S2); for a key  *)
(* of both snapshots and a column non-null in both the final value is that *)
(* of the snapshot merged last, and present_in_latest_snapshot tells only  *)
(* the snapshot merged last.                                               *)
C29_SerialMerges ==
    (calc.fn = "serial_merges") =>
        /\ keys(calc.out.s1_s2) = keys(calc.out.s2_s1)
        /\ LastMergedWins(calc.out.s1_s2, calc.arg.master, calc.arg.s1, calc.arg.s2)
        /\ LastMergedWins(calc.out.s2_s1, calc.arg.master, calc.arg.s2, calc.arg.s1)

\* a key of both snapshots with a title in both: the two orders give the
\* same keys and different titles
C29_Witness ==
    /\ calc.fn = "serial_merges"
    /\ \E r1 \in Range(calc.out.s1_s2.rows), r2 \in Range(calc.out.s2_s1.rows) :
          /\ r1[KEY] = Str("v1") /\ r2[KEY] = Str("v1")
          /\ r1["title"] = Str("newer")
          /\ r2["title"] = Str("new")
    /\ keys(calc.arg.master) = {Str("v2")}

\* a key of the first snapshot only: its flag differs between the orders
C29_WitnessFlag ==
    /\ calc.fn = "serial_merges"
    /\ \E r1 \in Range(calc.out.s1_s2.rows), r2 \in Range(calc.out.s2_s1.rows) :
          /\ r1[KEY] = Str("v1") /\ r2[KEY] = Str("v1")
          /\ r1["present_in_latest_snapshot"] = Bool(FALSE)
          /\ r2["present_in_latest_snapshot"] = Bool(TRUE)

=============================================================================
